---- MODULE Spec2Model ----
(***************************************************************************)
(* Conversion pipeline of the PDF/image to Word/Excel converter: the App   *)
(* component's state (file, pages, status, target, conversionResult), its  *)
(* handlers (handleFileSelect, startConversion, handleManualDownload,      *)
(* reset, setTarget), the per-page inference calls, and the two emitters   *)
(* (generateExcel, generateWord) with the assembly that feeds them.        *)
(*                                                                         *)
(* Text is a sequence of one-character strings, so that split, trim,       *)
(* startsWith, replace, substring and join are computed as the code        *)
(* computes them.                                                          *)
(***************************************************************************)
EXTENDS Integers, Sequences, FiniteSets, TLC

(***************************************************************************)
(* Bounds of the model.                                                    *)
(***************************************************************************)
\* Largest number of pages a PDF of the model has (the code caps at PageCap).
MaxPages == 2
\* Largest number of page extractions of one file pending at the same time.
MaxPending == 1
\* Number of startConversion activations the model can hold at the same time.
MaxRuns == 2

(***************************************************************************)
(* String primitives of the JavaScript runtime, on character sequences.    *)
(***************************************************************************)
Whitespace == {" ", "\t", "\r", "\n"}

StartsWith(s, p) == Len(s) >= Len(p) /\ SubSeq(s, 1, Len(p)) = p

EndsWith(s, p) == Len(s) >= Len(p) /\ SubSeq(s, Len(s) - Len(p) + 1, Len(s)) = p

RECURSIVE TrimStart(_)
TrimStart(s) ==
  IF Len(s) > 0 /\ s[1] \in Whitespace THEN TrimStart(Tail(s)) ELSE s

RECURSIVE TrimEnd(_)
TrimEnd(s) ==
  IF Len(s) > 0 /\ s[Len(s)] \in Whitespace
  THEN TrimEnd(SubSeq(s, 1, Len(s) - 1))
  ELSE s

\* String.prototype.trim
Trim(s) == TrimEnd(TrimStart(s))

Occurrences(s, p) ==
  {i \in 1..(Len(s) - Len(p) + 1) : SubSeq(s, i, i + Len(p) - 1) = p}

\* String.prototype.indexOf, 1-based; 0 when p does not occur in s.
IndexOf(s, p) ==
  IF Occurrences(s, p) = {}
  THEN 0
  ELSE CHOOSE i \in Occurrences(s, p) : \A j \in Occurrences(s, p) : i <= j

\* String.prototype.replace with a string pattern: the first occurrence only.
ReplaceFirst(s, p, r) ==
  LET i == IndexOf(s, p)
  IN IF i = 0 THEN s ELSE SubSeq(s, 1, i - 1) \o r \o SubSeq(s, i + Len(p), Len(s))

\* String.prototype.substring(from), from 0-based.
Substring(s, from) == SubSeq(s, from + 1, Len(s))

\* String.prototype.split with a one-character separator.
RECURSIVE Split(_, _)
Split(s, c) ==
  LET i == IndexOf(s, <<c>>)
  IN IF i = 0
     THEN <<s>>
     ELSE <<SubSeq(s, 1, i - 1)>> \o Split(SubSeq(s, i + 1, Len(s)), c)

\* Array.prototype.join
RECURSIVE Join(_, _)
Join(arr, sep) ==
  IF Len(arr) = 0 THEN <<>>
  ELSE IF Len(arr) = 1 THEN arr[1]
  ELSE Join(SubSeq(arr, 1, Len(arr) - 1), sep) \o sep \o arr[Len(arr)]

\* The letters of the stripped extensions, for the i flag of the pattern.
LowerOf(c) ==
  CASE c = "P" -> "p" [] c = "D" -> "d" [] c = "F" -> "f" [] c = "N" -> "n"
    [] c = "G" -> "g" [] c = "J" -> "j" [] c = "E" -> "e" [] OTHER -> c

ToLowerCase(s) == [i \in 1..Len(s) |-> LowerOf(s[i])]

(***************************************************************************)
(* Literal texts of the program.                                           *)
(***************************************************************************)
\* src/unnamed/part_000:111
PAGE_BREAK ==
  <<"\n", "\n", "-", "-", "-", " ", "P", "A", "G", "E", " ", "B", "R", "E", "A", "K", " ", "-",
    "-", "-", "\n", "\n">>

\* src/services/geminiService.ts:173
PlaceholderText ==
  <<"D", "o", "c", "u", "m", "e", "n", "t", " ", "c", "o", "n", "v", "e", "r", "t", "e", "d",
    " ", "b", "y", " ", "G", "e", "m", "i", "n", "i", " ", "P", "D", "F", " ", "P", "r", "o">>

MimePdf ==
  <<"a", "p", "p", "l", "i", "c", "a", "t", "i", "o", "n", "/", "p", "d", "f">>

MimeImagePrefix ==
  <<"i", "m", "a", "g", "e", "/">>

ExtXlsx ==
  <<".", "x", "l", "s", "x">>

ExtDocx ==
  <<".", "d", "o", "c", "x">>

\* The extensions of the regular expression /\.(pdf|png|jpg|jpeg)$/i
StrippedExtensions ==
  {<<".", "p", "d", "f">>, <<".", "p", "n", "g">>, <<".", "j", "p", "g">>,
   <<".", "j", "p", "e", "g">>}

(***************************************************************************)
(* Texts the inference service can answer with for the EXCEL target: JSON  *)
(* of the requested shape, JSON of other shapes, and text that is no JSON. *)
(***************************************************************************)

JsonNoTables ==
  <<"{", "\"", "t", "a", "b", "l", "e", "s", "\"", ":", "[", "]", "}">>

JsonTableA ==
  <<"{", "\"", "t", "a", "b", "l", "e", "s", "\"", ":", "[", "{", "\"", "h", "e", "a", "d", "e",
    "r", "s", "\"", ":", "[", "\"", "a", "\"", "]", ",", "\"", "r", "o", "w", "s", "\"", ":",
    "[", "[", "\"", "1", "\"", "]", "]", "}", "]", "}">>

JsonTablesBA ==
  <<"{", "\"", "t", "a", "b", "l", "e", "s", "\"", ":", "[", "{", "\"", "h", "e", "a", "d", "e",
    "r", "s", "\"", ":", "[", "\"", "b", "\"", "]", ",", "\"", "r", "o", "w", "s", "\"", ":",
    "[", "]", "}", ",", "{", "\"", "h", "e", "a", "d", "e", "r", "s", "\"", ":", "[", "\"", "a",
    "\"", "]", ",", "\"", "r", "o", "w", "s", "\"", ":", "[", "[", "\"", "1", "\"", "]", "]",
    "}", "]", "}">>

JsonEmptyObject ==
  <<"{", "}">>

JsonTablesNull ==
  <<"{", "\"", "t", "a", "b", "l", "e", "s", "\"", ":", "n", "u", "l", "l", "}">>

JsonTablesString ==
  <<"{", "\"", "t", "a", "b", "l", "e", "s", "\"", ":", "\"", "x", "\"", "}">>

JsonTablesNumber ==
  <<"{", "\"", "t", "a", "b", "l", "e", "s", "\"", ":", "5", "}">>

JsonTablesZero ==
  <<"{", "\"", "t", "a", "b", "l", "e", "s", "\"", ":", "0", "}">>

JsonTablesObject ==
  <<"{", "\"", "t", "a", "b", "l", "e", "s", "\"", ":", "{", "}", "}">>

JsonTableNoRows ==
  <<"{", "\"", "t", "a", "b", "l", "e", "s", "\"", ":", "[", "{", "\"", "h", "e", "a", "d", "e",
    "r", "s", "\"", ":", "[", "\"", "a", "\"", "]", "}", "]", "}">>

JsonTableNoHeaders ==
  <<"{", "\"", "t", "a", "b", "l", "e", "s", "\"", ":", "[", "{", "\"", "r", "o", "w", "s", "\"",
    ":", "[", "[", "\"", "1", "\"", "]", "]", "}", "]", "}">>

JsonNull ==
  <<"n", "u", "l", "l">>

JsonArray ==
  <<"[", "]">>

JsonTruncated ==
  <<"{", "\"", "t", "a", "b", "l", "e", "s", "\"", ":", "[">>

TextNotJson ==
  <<"n", "o", "t", " ", "j", "s", "o", "n">>
(***************************************************************************)
(* JSON values, as far as the table assembly inspects them.  An element of *)
(* the assembled array is an object with optional headers and rows, or a   *)
(* primitive; a primitive has no headers and no rows property.             *)
(***************************************************************************)
TableElem(h, r) ==
  [kind |-> "object", hasHeaders |-> TRUE, headers |-> h, hasRows |-> TRUE, rows |-> r]

ObjectElem(hasH, h, hasR, r) ==
  [kind |-> "object", hasHeaders |-> hasH, headers |-> h, hasRows |-> hasR, rows |-> r]

PrimitiveElem(k) ==
  [kind |-> k, hasHeaders |-> FALSE, headers |-> <<>>, hasRows |-> FALSE, rows |-> <<>>]

TableA == TableElem(<<"a">>, << <<"1">> >>)

TableB == TableElem(<<"b">>, <<>>)

\* The value of a `tables` property: its JavaScript type, its truthiness, its
\* elements when it is an array, and itself as an array element otherwise.
ArrayValue(items) ==
  [kind |-> "array", truthy |-> TRUE, items |-> items, self |-> PrimitiveElem("array")]

OtherValue(k, truthy, self) ==
  [kind |-> k, truthy |-> truthy, items |-> <<>>, self |-> self]

Undefined == OtherValue("undefined", FALSE, PrimitiveElem("undefined"))

\* A parsed text: what JSON.parse returned, and the `tables` property of it.
Parsed(k, tables) == [kind |-> k, tables |-> tables]

\* JSON.parse on the texts of the model; every other text of the model is no JSON.
JSONParse(res) ==
  CASE res = JsonNoTables -> Parsed("object", ArrayValue(<<>>))
    [] res = JsonTableA -> Parsed("object", ArrayValue(<<TableA>>))
    [] res = JsonTablesBA -> Parsed("object", ArrayValue(<<TableB, TableA>>))
    [] res = JsonEmptyObject -> Parsed("object", Undefined)
    [] res = JsonTablesNull -> Parsed("object", OtherValue("null", FALSE, PrimitiveElem("null")))
    [] res = JsonTablesString ->
         Parsed("object", OtherValue("string", TRUE, PrimitiveElem("string")))
    [] res = JsonTablesNumber ->
         Parsed("object", OtherValue("number", TRUE, PrimitiveElem("number")))
    [] res = JsonTablesZero ->
         Parsed("object", OtherValue("number", FALSE, PrimitiveElem("number")))
    [] res = JsonTablesObject ->
         Parsed("object", OtherValue("object", TRUE, ObjectElem(FALSE, <<>>, FALSE, <<>>)))
    [] res = JsonTableNoRows ->
         Parsed("object", ArrayValue(<<ObjectElem(TRUE, <<"a">>, FALSE, <<>>)>>))
    [] res = JsonTableNoHeaders ->
         Parsed("object", ArrayValue(<<ObjectElem(FALSE, <<>>, TRUE, << <<"1">> >>)>>))
    [] res = JsonNull -> Parsed("null", Undefined)
    [] res = JsonArray -> Parsed("array", Undefined)
    [] OTHER -> Parsed("SyntaxError", Undefined)

(***************************************************************************)
(* Table assembly: pageResults.flatMap(res => { try { return               *)
(* JSON.parse(res).tables || [] } catch { return [] } })                   *)
(***************************************************************************)
\* Variant: the catch block hands the text back instead of [].
TablesOrEmptyKeepingText(res) ==
  LET v == JSONParse(res)
  IN IF v.kind = "SyntaxError" THEN OtherValue("string", TRUE, PrimitiveElem("string"))
     ELSE IF v.kind = "null" THEN ArrayValue(<<>>)
     ELSE IF v.tables.truthy THEN v.tables
     ELSE ArrayValue(<<>>)

\* The callback: what one page result maps to.
TablesOrEmpty(res) ==
  LET v == JSONParse(res)
  IN IF v.kind = "SyntaxError" THEN ArrayValue(<<>>)      \* JSON.parse throws
     ELSE IF v.kind = "null" THEN ArrayValue(<<>>)        \* null.tables throws
     ELSE IF v.tables.truthy THEN v.tables
     ELSE ArrayValue(<<>>)

\* flatMap flattens an array the callback returns and keeps any other value
\* as one element.
Flattened(v) == IF v.kind = "array" THEN v.items ELSE <<v.self>>

\* Variant: the tables of later pages come first.
RECURSIVE FlatMapTablesLastPageFirst(_)
FlatMapTablesLastPageFirst(pageResults) ==
  IF Len(pageResults) = 0
  THEN <<>>
  ELSE FlatMapTablesLastPageFirst(Tail(pageResults)) \o
       Flattened(TablesOrEmpty(Head(pageResults)))

RECURSIVE FlatMapTables(_)
FlatMapTables(pageResults) ==
  IF Len(pageResults) = 0
  THEN <<>>
  ELSE Flattened(TablesOrEmpty(Head(pageResults))) \o FlatMapTables(Tail(pageResults))

(***************************************************************************)
(* Document assembly: pageResults.join('\n\n--- PAGE BREAK ---\n\n')       *)
(***************************************************************************)
\* Variant: the separator follows every page, the last one too.
FullMarkdownClosed(pageResults) ==
  IF Len(pageResults) = 0 THEN <<>> ELSE Join(pageResults, PAGE_BREAK) \o PAGE_BREAK

FullMarkdown(pageResults) == Join(pageResults, PAGE_BREAK)

(***************************************************************************)
(* finalData and conversionResult: an object with optional tables and      *)
(* markdown, or null.                                                      *)
(***************************************************************************)
NullResult ==
  [isNull |-> TRUE, hasTables |-> FALSE, tables |-> <<>>,
   hasMarkdown |-> FALSE, markdown |-> <<>>]

TablesResult(t) ==
  [isNull |-> FALSE, hasTables |-> TRUE, tables |-> t,
   hasMarkdown |-> FALSE, markdown |-> <<>>]

MarkdownResult(m) ==
  [isNull |-> FALSE, hasTables |-> FALSE, tables |-> <<>>,
   hasMarkdown |-> TRUE, markdown |-> m]

FinalData(target, pageResults) ==
  IF target = "EXCEL"
  THEN TablesResult(FlatMapTables(pageResults))
  ELSE MarkdownResult(FullMarkdown(pageResults))

(***************************************************************************)
(* The emitters.  A saved file is its name and its content: the sheets of  *)
(* a workbook or the paragraphs of a document.                             *)
(***************************************************************************)
NoArtifact == [kind |-> "none", fileName |-> <<>>, sheets |-> <<>>, children |-> <<>>]

Row(defined, cells) == [defined |-> defined, cells |-> cells]

Sheet(label, n, data) == [label |-> label, n |-> n, data |-> data]

\* [table.headers, ...table.rows]
SheetData(table) ==
  <<Row(table.hasHeaders, table.headers)>> \o
  [k \in 1..Len(table.rows) |-> Row(TRUE, table.rows[k])]

\* Spreading table.rows throws a TypeError when rows is undefined.
SpreadThrows(table) == ~table.hasRows

\* Variant: the sheets are named by the index of the table, from 0.
generateExcelZeroBased(tables, filename) ==
  IF Len(tables) = 0
  THEN [threw |-> FALSE,
        artifact |-> [kind |-> "xlsx", fileName |-> filename \o ExtXlsx,
                      sheets |-> <<Sheet("Info", 0, <<Row(TRUE, <<"No tables found by AI">>)>>)>>,
                      children |-> <<>>]]
  ELSE IF \E k \in 1..Len(tables) : SpreadThrows(tables[k])
  THEN [threw |-> TRUE, artifact |-> NoArtifact]
  ELSE [threw |-> FALSE,
        artifact |-> [kind |-> "xlsx", fileName |-> filename \o ExtXlsx,
                      sheets |-> [k \in 1..Len(tables) |->
                                    Sheet("Table", k - 1, SheetData(tables[k]))],
                      children |-> <<>>]]

\* generateExcel: the outcome of the call, and the workbook written.
generateExcel(tables, filename) ==
  IF Len(tables) = 0
  THEN [threw |-> FALSE,
        artifact |-> [kind |-> "xlsx", fileName |-> filename \o ExtXlsx,
                      sheets |-> <<Sheet("Info", 0, <<Row(TRUE, <<"No tables found by AI">>)>>)>>,
                      children |-> <<>>]]
  ELSE IF \E k \in 1..Len(tables) : SpreadThrows(tables[k])
  THEN [threw |-> TRUE, artifact |-> NoArtifact]
  ELSE [threw |-> FALSE,
        artifact |-> [kind |-> "xlsx", fileName |-> filename \o ExtXlsx,
                      sheets |-> [k \in 1..Len(tables) |->
                                    Sheet("Table", k, SheetData(tables[k]))],
                      children |-> <<>>]]

Block(kind, level, text) == [kind |-> kind, level |-> level, text |-> text]

Blank == Block("Blank", 0, <<>>)

HashSpace == <<"#", " ">>

Hash2Space == <<"#", "#", " ">>

Hash3Space == <<"#", "#", "#", " ">>

\* Variant: the markers are looked for in the trimmed line.
LineBlockTrimmed(line, children) ==
  LET trimmed == Trim(line)
  IN IF Len(trimmed) = 0 /\ Len(children) > 0 THEN Blank
     ELSE IF StartsWith(trimmed, HashSpace)
     THEN Block("Heading", 1, ReplaceFirst(trimmed, HashSpace, <<>>))
     ELSE IF StartsWith(trimmed, Hash2Space)
     THEN Block("Heading", 2, ReplaceFirst(trimmed, Hash2Space, <<>>))
     ELSE IF StartsWith(trimmed, Hash3Space)
     THEN Block("Heading", 3, ReplaceFirst(trimmed, Hash3Space, <<>>))
     ELSE IF StartsWith(trimmed, <<"-", " ">>) \/ StartsWith(trimmed, <<"*", " ">>)
     THEN Block("Bullet", 0, Substring(trimmed, 2))
     ELSE Block("Paragraph", 0, line)

\* Variant: a bullet marker is a dash or a star, with or without the space.
LineBlockDashBullet(line, children) ==
  IF Len(Trim(line)) = 0 /\ Len(children) > 0 THEN Blank
  ELSE IF StartsWith(line, HashSpace)
  THEN Block("Heading", 1, ReplaceFirst(line, HashSpace, <<>>))
  ELSE IF StartsWith(line, Hash2Space)
  THEN Block("Heading", 2, ReplaceFirst(line, Hash2Space, <<>>))
  ELSE IF StartsWith(line, Hash3Space)
  THEN Block("Heading", 3, ReplaceFirst(line, Hash3Space, <<>>))
  ELSE IF StartsWith(line, <<"-">>) \/ StartsWith(line, <<"*">>)
  THEN Block("Bullet", 0, Substring(line, 2))
  ELSE Block("Paragraph", 0, line)

\* The body of lines.forEach in generateWord: the paragraph pushed for a line.
LineBlock(line, children) ==
  IF Len(Trim(line)) = 0 /\ Len(children) > 0 THEN Blank
  ELSE IF StartsWith(line, HashSpace)
  THEN Block("Heading", 1, ReplaceFirst(line, HashSpace, <<>>))
  ELSE IF StartsWith(line, Hash2Space)
  THEN Block("Heading", 2, ReplaceFirst(line, Hash2Space, <<>>))
  ELSE IF StartsWith(line, Hash3Space)
  THEN Block("Heading", 3, ReplaceFirst(line, Hash3Space, <<>>))
  ELSE IF StartsWith(line, <<"-", " ">>) \/ StartsWith(line, <<"*", " ">>)
  THEN Block("Bullet", 0, Substring(line, 2))
  ELSE Block("Paragraph", 0, line)

RECURSIVE ForEachLine(_, _)
ForEachLine(lines, children) ==
  IF Len(lines) = 0
  THEN children
  ELSE ForEachLine(Tail(lines), Append(children, LineBlock(Head(lines), children)))

\* generateWord up to Packer.toBlob: the document and the name it is saved under.
generateWord(markdownText, filename) ==
  LET children == ForEachLine(Split(markdownText, "\n"), <<>>)
  IN [kind |-> "docx", fileName |-> filename \o ExtDocx, sheets |-> <<>>,
      children |-> IF Len(children) > 0
                   THEN children
                   ELSE <<Block("Paragraph", 0, PlaceholderText)>>]

\* fileName.replace(/\.(pdf|png|jpg|jpeg)$/i, '')
CleanFileName(fileName) ==
  IF \E e \in StrippedExtensions : EndsWith(ToLowerCase(fileName), e)
  THEN LET e == CHOOSE x \in StrippedExtensions : EndsWith(ToLowerCase(fileName), x)
       IN SubSeq(fileName, 1, Len(fileName) - Len(e))
  ELSE fileName

\* data.tables || []
TablesOf(data) == IF data.hasTables THEN data.tables ELSE <<>>

\* data.markdown || ''
MarkdownOf(data) == IF data.hasMarkdown THEN data.markdown ELSE <<>>

(***************************************************************************)
(* Files the user can pick, and the pages read from them.                  *)
(***************************************************************************)
\* file === null
NoFile == [name |-> <<>>, type |-> <<>>]

FilePdf == [name |-> <<"r", ".", "p", "d", "f">>, type |-> MimePdf]

FilePng ==
  [name |-> <<"s", ".", "P", "N", "G">>,
   type |-> <<"i", "m", "a", "g", "e", "/", "p", "n", "g">>]

\* An image of a type whose extension the pattern of triggerDownload does not
\* list.
FileGif ==
  [name |-> <<"t", ".", "g", "i", "f">>,
   type |-> <<"i", "m", "a", "g", "e", "/", "g", "i", "f">>]

FileTxt ==
  [name |-> <<"n", ".", "t", "x", "t">>,
   type |-> <<"t", "e", "x", "t", "/", "p", "l", "a", "i", "n">>]

\* The files handleFileSelect accepts, and everything a change event can carry:
\* an accepted file, a file of another type, or no file at all.
Files == {FilePdf, FilePng}

Offered == Files \cup {FileTxt, NoFile}

isPdf(f) == f.type = MimePdf

isImage(f) == StartsWith(f.type, MimeImagePrefix)

\* The files a conversion can be of: those that pass the test of
\* handleFileSelect, among them an image whose extension is not stripped.
ReadyFiles == {f \in Files \cup {FileGif, FileTxt} : isPdf(f) \/ isImage(f)}

\* Limit to 10 pages for stability and performance
PageCap == 10

Min(a, b) == IF a <= b THEN a ELSE b

Page(f, i) == [index |-> i, dataUrl |-> [file |-> f.name, page |-> i]]

RECURSIVE Ascending(_)
Ascending(S) ==
  IF S = {}
  THEN <<>>
  ELSE LET m == CHOOSE x \in S : \A y \in S : x <= y
       IN <<m>> \o Ascending(S \ {m})

\* extractPagesAsImages on a PDF of numPages pages of which those in `drawn`
\* got a 2d context: one page per drawn page up to the cap, ascending.
extractPagesAsImages(f, numPages, drawn) ==
  LET kept == Ascending({i \in 1..Min(numPages, PageCap) : i \in drawn})
  IN [k \in 1..Len(kept) |-> Page(f, kept[k])]

(***************************************************************************)
(* ConversionStatus and ConversionTarget.                                  *)
(***************************************************************************)
Targets == {"WORD", "EXCEL"}

\* status.error absent
Undef == "undefined"

Truthy(m) == m # Undef /\ m # ""

\* A status text: its fixed wording and the values interpolated into it.
Step(text, page, of, tgt) == [text |-> text, page |-> page, of |-> of, target |-> tgt]

IdleStatus ==
  [step |-> Step("Idle", 0, 0, ""), progress |-> 0, isProcessing |-> FALSE,
   error |-> Undef]

ReadyStatus ==
  [step |-> Step("Ready to convert", 0, 0, ""), progress |-> 0, isProcessing |-> FALSE,
   error |-> Undef]

InitializingStatus(tgt) ==
  [step |-> Step("Initializing Gemini for", 0, 0, tgt), progress |-> 5,
   isProcessing |-> TRUE, error |-> Undef]

FinalizingStatus ==
  [step |-> Step("Finalizing document...", 0, 0, ""), progress |-> 95,
   isProcessing |-> TRUE, error |-> Undef]

CompleteStatus ==
  [step |-> Step("Conversion Complete!", 0, 0, ""), progress |-> 100,
   isProcessing |-> FALSE, error |-> Undef]

\* Variant: the catch block shows err.message whatever it is.
ErrorStatusRaw(m) ==
  [step |-> Step("Error occurred", 0, 0, ""), progress |-> 0, isProcessing |-> FALSE,
   error |-> m]

\* The status the catch block of startConversion sets for an error whose
\* message is m.
ErrorStatus(m) ==
  [step |-> Step("Error occurred", 0, 0, ""), progress |-> 0, isProcessing |-> FALSE,
   error |-> IF Truthy(m) THEN m ELSE "Something went wrong during conversion."]

\* Variant: the share of the pages done after page i, of the whole bar.
PageProgressAhead(i, n) == 5 + (((i + 1) * 95) \div n)

\* 5 + Math.floor((i / pages.length) * 85); the floating-point value agrees
\* with the integer quotient for every i < n <= PageCap.
PageProgress(i, n) == 5 + ((i * 85) \div n)

\* The messages of the errors an inference call or Packer.toBlob can be
\* rejected with: a message, or an empty one.
ErrorMessages == {"Failed to fetch", ""}

\* The TypeError of spreading an undefined table.rows.
SpreadErrorMessage == "table.rows is not iterable"

(***************************************************************************)
(* Texts the inference service answers with.                               *)
(***************************************************************************)
ExcelAnswers ==
  {<<>>, TextNotJson, JsonTruncated, JsonNull, JsonArray, JsonEmptyObject,
   JsonTablesNull, JsonTablesZero, JsonTablesString, JsonTablesNumber,
   JsonTablesObject, JsonNoTables, JsonTableA, JsonTablesBA, JsonTableNoRows,
   JsonTableNoHeaders}

MarkdownLines ==
  {<<>>, <<" ">>, <<"a">>,
   <<"#", " ", "a">>, <<"#", "#", " ", "a">>, <<"#", "#", "#", " ", "a">>,
   <<"-", " ", "a">>, <<"*", " ", "a">>,
   <<" ", "#", " ", "a">>, <<"\t", "-", " ", "a">>, <<" ", "*", " ", "a">>,
   <<"#", "a">>, <<"#", " ", "#", " ", "a">>, <<"-", " ", "-", " ", "a">>,
   <<"#", "#", "#", "#", " ", "a">>}

WordAnswers ==
  MarkdownLines \cup
  {<<"#", " ", "T", "\n", "H">>, <<"\n", "a">>, <<"a", "\n", "\n", "-", " ", "b">>}

Answers(tgt) == IF tgt = "EXCEL" THEN ExcelAnswers ELSE WordAnswers

\* The few answers the model of the whole application draws from.
FewAnswers(tgt) ==
  IF tgt = "EXCEL"
  THEN {JsonTableA, JsonTablesString}
  ELSE {<<>>, <<"#", " ", "a">>}

(***************************************************************************)
(* State.                                                                  *)
(***************************************************************************)
VARIABLES
  file,              \* useState<File | null>
  pages,             \* useState<DocumentPage[]>
  status,            \* useState<ConversionStatus>
  target,            \* useState<ConversionTarget>
  conversionResult,  \* useState<{tables?, markdown?} | null>
  extracting,        \* per file, the handleFileSelect calls awaiting its pages
  runs,              \* the activations of startConversion
  saved,             \* the files saved last, by the run and by Download Again
  lastEvent          \* the handler or continuation that ran last

vars ==
  <<file, pages, status, target, conversionResult, extracting, runs, saved, lastEvent>>

\* An activation of startConversion: where it stands (phase), the file, pages
\* and target of the render it was created in, its loop variable i and its
\* pageResults; and, recorded for the properties, the calls it made to
\* processPageWithGemini, the texts they returned, the progress values it
\* wrote, whether it called setConversionResult, the document it is packing,
\* how it ended, which of its calls failed (0: none) and the message of the
\* error it caught.
IdleRun ==
  [phase |-> "idle", file |-> NoFile, pages |-> <<>>, target |-> "WORD", i |-> 0,
   pageResults |-> <<>>, calls |-> <<>>, returned |-> <<>>, progressLog |-> <<>>,
   resultSet |-> FALSE, document |-> NoArtifact, outcome |-> "none",
   failedCall |-> 0, thrown |-> Undef]

NothingSaved == [auto |-> NoArtifact, manual |-> NoArtifact]

Init ==
  /\ file = NoFile
  /\ pages = <<>>
  /\ status = IdleStatus
  /\ target = "WORD"
  /\ conversionResult = NullResult
  /\ extracting = [f \in Files |-> 0]
  /\ runs = [r \in 1..MaxRuns |-> IdleRun]
  /\ saved = NothingSaved
  /\ lastEvent = "init"

(***************************************************************************)
(* What the render shows: the controls the user can act on.                *)
(***************************************************************************)
\* {!file ? (<input type="file" onChange={handleFileSelect}/>) : ...}
FileInputShown == file = NoFile

\* {!status.isProcessing && (<button onClick={reset}>)}, and the Convert
\* Another and Try Again buttons, all inside the file branch.
ResetShown == file # NoFile /\ ~status.isProcessing

\* Variant: the target buttons are shown whenever no conversion is running.
TargetShownWhenIdle == file # NoFile /\ ~status.isProcessing

\* {!status.isProcessing && status.progress === 0 && (... setTarget ...)}
TargetShown == file # NoFile /\ ~status.isProcessing /\ status.progress = 0

\* Variant: the Convert button stays on screen while a conversion runs.
ConvertShownWhileProcessing ==
  /\ file # NoFile
  /\ status.progress # 100
  /\ ~Truthy(status.error)

\* The last branch of the action area: not processing, not complete, no error.
ConvertShown ==
  /\ file # NoFile
  /\ ~status.isProcessing
  /\ status.progress # 100
  /\ ~Truthy(status.error)

\* The success view.
DownloadAgainShown == file # NoFile /\ ~status.isProcessing /\ status.progress = 100

(***************************************************************************)
(* handleFileSelect, and the continuations after its await.                *)
(***************************************************************************)
handleFileSelect(f) ==
  /\ FileInputShown
  /\ lastEvent' = "handleFileSelect"
  /\ IF f # NoFile /\ (isPdf(f) \/ isImage(f))
     THEN /\ extracting[f] < MaxPending
          /\ file' = f
          /\ pages' = <<>>
          /\ conversionResult' = NullResult
          /\ status' = ReadyStatus
          /\ extracting' = [extracting EXCEPT ![f] = @ + 1]
     ELSE \* no file picked, or alert('Please upload a valid PDF or Image file')
          UNCHANGED <<file, pages, conversionResult, status, extracting>>
  /\ UNCHANGED <<target, runs, saved>>

\* setPages(extractedPages), or setPages([{ index: 1, dataUrl }]) for an image
PagesRead(f, numPages, drawn) ==
  /\ extracting[f] > 0
  /\ extracting' = [extracting EXCEPT ![f] = @ - 1]
  /\ pages' = IF isPdf(f)
              THEN extractPagesAsImages(f, numPages, drawn)
              ELSE <<Page(f, 1)>>
  /\ lastEvent' = "PagesRead"
  /\ UNCHANGED <<file, status, target, conversionResult, runs, saved>>

\* Variant: the catch block sets a whole status, as the one of startConversion
\* does.
PagesFailedResetting(f) ==
  /\ extracting[f] > 0
  /\ extracting' = [extracting EXCEPT ![f] = @ - 1]
  /\ status' = [step |-> Step("Error occurred", 0, 0, ""), progress |-> 0,
                isProcessing |-> FALSE, error |-> "Failed to process file"]
  /\ lastEvent' = "PagesFailed"
  /\ UNCHANGED <<file, pages, target, conversionResult, runs, saved>>

\* catch (err) { setStatus(prev => ({ ...prev, error: 'Failed to process file' })) }
PagesFailed(f) ==
  /\ extracting[f] > 0
  /\ extracting' = [extracting EXCEPT ![f] = @ - 1]
  /\ status' = [status EXCEPT !.error = "Failed to process file"]
  /\ lastEvent' = "PagesFailed"
  /\ UNCHANGED <<file, pages, target, conversionResult, runs, saved>>

(***************************************************************************)
(* reset and setTarget.                                                    *)
(***************************************************************************)
\* The records of the finished activation and of the files saved are dropped
\* with the file they belong to.
reset ==
  /\ ResetShown
  /\ file' = NoFile
  /\ pages' = <<>>
  /\ conversionResult' = NullResult
  /\ status' = IdleStatus
  /\ runs' = [r \in 1..MaxRuns |-> IdleRun]
  /\ saved' = NothingSaved
  /\ lastEvent' = "reset"
  /\ UNCHANGED <<target, extracting>>

setTarget(t) ==
  /\ TargetShown
  /\ target' = t
  /\ lastEvent' = "setTarget"
  /\ UNCHANGED <<file, pages, status, conversionResult, extracting, runs, saved>>

(***************************************************************************)
(* startConversion.  An activation runs from the click to its first await, *)
(* and from the completion of an awaited call to the next await or to its  *)
(* end.                                                                    *)
(***************************************************************************)
\* Variant: the guard without the test of pages.length.
EarlyReturnWithoutPages(f, pgs) == f = NoFile

\* if (!file || pages.length === 0) return;
EarlyReturn(f, pgs) == f = NoFile \/ Len(pgs) = 0

Active(r) == runs[r].phase \in {"inference", "packing"}

\* The activation a click creates: the first one not in use.
FreeRun(r) == ~Active(r) /\ \A q \in 1..(r - 1) : Active(q)

\* pages[i], the page the loop sends next (i is 0-based).
CurrentPage(pgs, i) == pgs[i + 1]

\* Variant: the result is put in front (unshift for push).
PushResultFront(pageResults, result) == <<result>> \o pageResults

\* pageResults.push(result)
PushResult(pageResults, result) == Append(pageResults, result)

\* The catch block: an error whose message is m ends the activation rr.
Caught(r, rr, m) ==
  /\ status' = ErrorStatus(m)
  /\ runs' = [runs EXCEPT ![r] =
                [rr EXCEPT !.phase = "done", !.outcome = "error", !.thrown = m,
                           !.progressLog = Append(@, 0)]]

\* The end of the try block: setStatus({ 'Conversion Complete!', 100, false })
Completed(r, rr) ==
  /\ status' = CompleteStatus
  /\ runs' = [runs EXCEPT ![r] =
                [rr EXCEPT !.phase = "done", !.outcome = "success",
                           !.progressLog = Append(@, 100)]]

\* After the loop: the status goes to 95, finalData is assembled and stored,
\* and triggerDownload is called and awaited.  generateExcel writes the
\* workbook or throws before the await is reached; generateWord awaits
\* Packer.toBlob.
Finalize(r, rr) ==
  LET finalData == FinalData(rr.target, rr.pageResults)
      cleanFileName == CleanFileName(rr.file.name)
      finalizing == [rr EXCEPT !.progressLog = Append(@, 95), !.resultSet = TRUE]
  IN /\ conversionResult' = finalData
     /\ IF rr.target = "EXCEL"
        THEN LET written == generateExcel(TablesOf(finalData), cleanFileName)
             IN IF written.threw
                THEN /\ Caught(r, finalizing, SpreadErrorMessage)
                     /\ saved' = saved
                ELSE /\ Completed(r, finalizing)
                     /\ saved' = [saved EXCEPT !.auto = written.artifact]
        ELSE /\ status' = FinalizingStatus
             /\ runs' = [runs EXCEPT ![r] =
                           [finalizing EXCEPT
                              !.phase = "packing",
                              !.document = generateWord(MarkdownOf(finalData),
                                                        cleanFileName)]]
             /\ saved' = saved

\* The head of the for loop with the status st in place: the next page is
\* announced and sent to processPageWithGemini, or the loop is left.
Loop(r, rr, st) ==
  IF rr.i < Len(rr.pages)
  THEN /\ status' = [st EXCEPT
                       !.step = Step("Processing page", rr.i + 1, Len(rr.pages), ""),
                       !.progress = PageProgress(rr.i, Len(rr.pages))]
       /\ runs' = [runs EXCEPT ![r] =
                     [rr EXCEPT
                        !.phase = "inference",
                        !.calls = Append(@, [imageData |-> CurrentPage(rr.pages, rr.i).dataUrl,
                                             target |-> rr.target]),
                        !.progressLog = Append(@, PageProgress(rr.i, Len(rr.pages)))]]
       /\ UNCHANGED <<conversionResult, saved>>
  ELSE Finalize(r, rr)

\* The click on Convert.
startConversion(r) ==
  /\ ConvertShown
  /\ FreeRun(r)
  /\ lastEvent' = "startConversion"
  /\ IF EarlyReturn(file, pages)
     THEN UNCHANGED <<status, runs, conversionResult, saved>>
     ELSE Loop(r,
               [IdleRun EXCEPT !.file = file, !.pages = pages, !.target = target,
                               !.progressLog = <<5>>],
               InitializingStatus(target))
  /\ UNCHANGED <<file, pages, target, extracting>>

\* processPageWithGemini returns: response.text || ''
InferenceReturned(r, text) ==
  /\ runs[r].phase = "inference"
  /\ lastEvent' = "InferenceReturned"
  /\ Loop(r,
          [runs[r] EXCEPT !.pageResults = PushResult(@, text),
                          !.returned = Append(@, text),
                          !.i = @ + 1],
          status)
  /\ UNCHANGED <<file, pages, target, extracting>>

\* Variant: the failure of a page is recorded and the loop goes on with an
\* empty result for it.
InferenceFailureSkipped(r, m) ==
  /\ runs[r].phase = "inference"
  /\ lastEvent' = "InferenceFailed"
  /\ Loop(r,
          [runs[r] EXCEPT !.failedCall = Len(runs[r].calls), !.thrown = m,
                          !.pageResults = PushResult(@, <<>>), !.i = @ + 1],
          status)
  /\ UNCHANGED <<file, pages, target, extracting>>

\* processPageWithGemini is rejected with an error whose message is m.
InferenceFailed(r, m) ==
  /\ runs[r].phase = "inference"
  /\ lastEvent' = "InferenceFailed"
  /\ Caught(r, [runs[r] EXCEPT !.failedCall = Len(runs[r].calls)], m)
  /\ UNCHANGED <<file, pages, target, conversionResult, extracting, saved>>

\* Packer.toBlob resolves: the document is saved, generateWord and
\* triggerDownload return, and the try block ends.
Packed(r) ==
  /\ runs[r].phase = "packing"
  /\ lastEvent' = "Packed"
  /\ saved' = [saved EXCEPT !.auto = runs[r].document]
  /\ Completed(r, runs[r])
  /\ UNCHANGED <<file, pages, target, conversionResult, extracting>>

\* Variant: the document is saved before the failure is reported.
PackingFailedAfterSave(r, m) ==
  /\ runs[r].phase = "packing"
  /\ lastEvent' = "PackingFailed"
  /\ saved' = [saved EXCEPT !.auto = runs[r].document]
  /\ Caught(r, runs[r], m)
  /\ UNCHANGED <<file, pages, target, conversionResult, extracting>>

\* Packer.toBlob is rejected with an error whose message is m.
PackingFailed(r, m) ==
  /\ runs[r].phase = "packing"
  /\ lastEvent' = "PackingFailed"
  /\ Caught(r, runs[r], m)
  /\ UNCHANGED <<file, pages, target, conversionResult, extracting, saved>>

(***************************************************************************)
(* handleManualDownload: triggerDownload, not awaited.  generateExcel      *)
(* writes the workbook in the call, or throws into a promise nobody        *)
(* handles.  generateWord builds the document in the call and saves it     *)
(* when Packer.toBlob resolves; that continuation reads and writes nothing *)
(* of the component, so the file is recorded with the click, for either    *)
(* outcome of Packer.toBlob.                                               *)
(***************************************************************************)
\* Variant: the file is saved under the name of the source file as it is.
handleManualDownloadRawName ==
  /\ DownloadAgainShown
  /\ lastEvent' = "handleManualDownload"
  /\ IF file # NoFile /\ ~conversionResult.isNull
     THEN LET cleanFileName == file.name
          IN IF target = "EXCEL"
             THEN LET written == generateExcel(TablesOf(conversionResult),
                                               cleanFileName)
                  IN saved' = IF written.threw
                              THEN saved
                              ELSE [saved EXCEPT !.manual = written.artifact]
             ELSE \E packed \in BOOLEAN :
                    saved' = IF packed
                             THEN [saved EXCEPT
                                     !.manual = generateWord(MarkdownOf(conversionResult),
                                                             cleanFileName)]
                             ELSE saved
     ELSE saved' = saved
  /\ UNCHANGED <<file, pages, status, target, conversionResult, extracting, runs>>

handleManualDownload ==
  /\ DownloadAgainShown
  /\ lastEvent' = "handleManualDownload"
  /\ IF file # NoFile /\ ~conversionResult.isNull
     THEN LET cleanFileName == CleanFileName(file.name)
          IN IF target = "EXCEL"
             THEN LET written == generateExcel(TablesOf(conversionResult),
                                               cleanFileName)
                  IN saved' = IF written.threw
                              THEN saved
                              ELSE [saved EXCEPT !.manual = written.artifact]
             ELSE \E packed \in BOOLEAN :
                    saved' = IF packed
                             THEN [saved EXCEPT
                                     !.manual = generateWord(MarkdownOf(conversionResult),
                                                             cleanFileName)]
                             ELSE saved
     ELSE saved' = saved
  /\ UNCHANGED <<file, pages, status, target, conversionResult, extracting, runs>>

(***************************************************************************)
(* The application: every handler and continuation, the inference service  *)
(* answering from FewAnswers.                                              *)
(***************************************************************************)
Next ==
  \/ \E f \in Offered : handleFileSelect(f)
  \/ \E f \in Files : \E numPages \in 1..MaxPages :
       \E drawn \in {1..numPages, {}} : PagesRead(f, numPages, drawn)
  \/ \E f \in Files : PagesFailed(f)
  \/ reset
  \/ \E t \in Targets : setTarget(t)
  \/ \E r \in 1..MaxRuns : startConversion(r)
  \/ \E r \in 1..MaxRuns : \E text \in FewAnswers(runs[r].target) :
       InferenceReturned(r, text)
  \/ \E r \in 1..MaxRuns : \E m \in ErrorMessages : InferenceFailed(r, m)
  \/ \E r \in 1..MaxRuns : Packed(r)
  \/ \E r \in 1..MaxRuns : \E m \in ErrorMessages : PackingFailed(r, m)
  \/ handleManualDownload

Spec == Init /\ [][Next]_vars

(***************************************************************************)
(* The application with every awaited call settling: a call to             *)
(* processPageWithGemini or to Packer.toBlob that is pending eventually    *)
(* returns or is rejected, and the continuation of the activation runs.    *)
(***************************************************************************)
Settles(r) ==
  \/ \E m \in ErrorMessages : InferenceFailed(r, m)
  \/ \E m \in ErrorMessages : PackingFailed(r, m)
  \/ Packed(r)
  \/ \E text \in FewAnswers(runs[r].target) : InferenceReturned(r, text)

SpecFair == Init /\ [][Next]_vars /\ \A r \in 1..MaxRuns : WF_vars(Settles(r))

(***************************************************************************)
(* One conversion: a file is selected, its pages are read and a target is  *)
(* chosen; the inference service answers from all of Answers.              *)
(***************************************************************************)
InitReady ==
  /\ file \in ReadyFiles
  /\ \E numPages \in 1..MaxPages : \E drawn \in SUBSET (1..numPages) :
       /\ drawn # {}
       /\ pages = IF isPdf(file)
                  THEN extractPagesAsImages(file, numPages, drawn)
                  ELSE <<Page(file, 1)>>
  /\ status = ReadyStatus
  /\ target \in Targets
  /\ conversionResult = NullResult
  /\ extracting = [f \in Files |-> 0]
  /\ runs = [r \in 1..MaxRuns |-> IdleRun]
  /\ saved = NothingSaved
  /\ lastEvent = "PagesRead"

NextRun ==
  \/ \E r \in 1..MaxRuns : startConversion(r)
  \/ \E r \in 1..MaxRuns : \E text \in Answers(runs[r].target) :
       InferenceReturned(r, text)
  \/ \E r \in 1..MaxRuns : \E m \in ErrorMessages : InferenceFailed(r, m)
  \/ \E r \in 1..MaxRuns : Packed(r)
  \/ \E r \in 1..MaxRuns : \E m \in ErrorMessages : PackingFailed(r, m)
  \/ handleManualDownload

SpecRun == InitReady /\ [][NextRun]_vars

(***************************************************************************)
(* Properties of the conversion pipeline.                                  *)
(***************************************************************************)
RunIds == 1..MaxRuns

ActiveRuns == {r \in RunIds : Active(r)}

InFlight == {r \in RunIds : runs[r].phase = "inference"}

NonDecreasing(log) == \A a, b \in 1..Len(log) : a <= b => log[a] <= log[b]

\* C1: a run of startConversion over N >= 1 pages in which no inference call
\* fails (it reaches setConversionResult) has called processPageWithGemini
\* exactly N times, the k-th call with the k-th page of the pages it started
\* with, and its pageResults are the N returned texts, the k-th one the text
\* returned for the k-th page.
C1_CallsAndResultsInPageOrder ==
  \A r \in RunIds :
    runs[r].resultSet =>
      LET rr == runs[r]
          N == Len(rr.pages)
      IN /\ N >= 1
         /\ Len(rr.calls) = N
         /\ \A k \in 1..N :
              rr.calls[k] = [imageData |-> rr.pages[k].dataUrl, target |-> rr.target]
         /\ Len(rr.pageResults) = N
         /\ Len(rr.returned) = N
         /\ \A k \in 1..N : rr.pageResults[k] = rr.returned[k]

\* A run over two pages whose calls returned two different texts has left
\* the loop.
C1_Witness ==
  \E r \in RunIds :
    /\ runs[r].resultSet
    /\ Len(runs[r].pages) = 2
    /\ runs[r].returned[1] # runs[r].returned[2]

\* The message the catch block shows for an error whose message is m.
ShownMessage(m) ==
  IF m = Undef \/ m = "" THEN "Something went wrong during conversion." ELSE m

\* What C2 says of a run whose k-th call failed, the message apart: the run
\* is over, the failed call is its last call, it has not called
\* setConversionResult (conversionResult is null), and neither generateExcel
\* nor generateWord has been called by it (no document built, nothing saved).
FailFast(r) ==
  /\ runs[r].phase = "done"
  /\ runs[r].outcome = "error"
  /\ Len(runs[r].calls) = runs[r].failedCall
  /\ Len(runs[r].returned) = runs[r].failedCall - 1
  /\ ~runs[r].resultSet
  /\ conversionResult.isNull
  /\ runs[r].document = NoArtifact
  /\ saved = NothingSaved

\* C2 (as stated): if the inference call for page k fails, no call is made
\* for a later page, conversionResult is not set, no emitter is invoked, and
\* the run ends with status.error set to the message of the error.
C2_FailFastWithErrorMessage ==
  \A r \in RunIds :
    runs[r].failedCall > 0 =>
      /\ FailFast(r)
      /\ lastEvent = "InferenceFailed" =>
           /\ ~status.isProcessing
           /\ status.error = runs[r].thrown

\* C2 (amended): as C2, the run ending with status.error set to the message
\* of the error, or to 'Something went wrong during conversion.' when the
\* error has no message or an empty one.
C2_FailFastWithShownMessage ==
  \A r \in RunIds :
    runs[r].failedCall > 0 =>
      /\ FailFast(r)
      /\ lastEvent = "InferenceFailed" =>
           /\ ~status.isProcessing
           /\ status.progress = 0
           /\ status.error = ShownMessage(runs[r].thrown)

\* The call for page 1 of 2 has just failed.
C2_Witness ==
  \E r \in RunIds :
    /\ runs[r].failedCall = 1
    /\ Len(runs[r].pages) = 2
    /\ lastEvent = "InferenceFailed"

\* C3: at most one inference call is in flight at any moment: at most one
\* activation of startConversion exists while status.isProcessing is true
\* and none otherwise, so no activation starts while one is processing; and
\* an activation has made exactly one call more than have returned or failed
\* while it awaits one, and none more otherwise.
C3_OneInferenceCallInFlight ==
  /\ Cardinality(InFlight) <= 1
  /\ Cardinality(ActiveRuns) = IF status.isProcessing THEN 1 ELSE 0
  /\ \A r \in RunIds :
       Len(runs[r].calls) =
         Len(runs[r].returned)
           + (IF runs[r].failedCall > 0 THEN 1 ELSE 0)
           + (IF runs[r].phase = "inference" THEN 1 ELSE 0)

\* The second call of a run is in flight while the pages of a file are
\* still being read.
C3_Witness ==
  \E r \in RunIds :
    /\ runs[r].phase = "inference"
    /\ Len(runs[r].calls) = 2
    /\ \E f \in Files : extracting[f] > 0

\* C4: the progress values a successful run over N pages writes are 5, then
\* 5 + floor((i/N)*85) before page i for i = 0..N-1, then 95, then 100; they
\* never decrease and the last one is 100.
C4_ProgressNonDecreasing ==
  \A r \in RunIds :
    runs[r].outcome = "success" =>
      LET log == runs[r].progressLog
          N == Len(runs[r].pages)
      IN /\ Len(log) = N + 3
         /\ log[1] = 5
         /\ \A i \in 0..(N - 1) : log[i + 2] = 5 + ((i * 85) \div N)
         /\ log[N + 2] = 95
         /\ log[N + 3] = 100
         /\ NonDecreasing(log)

\* A run over two pages has succeeded.
C4_Witness ==
  \E r \in RunIds :
    /\ runs[r].outcome = "success"
    /\ runs[r].progressLog = <<5, 5, 47, 95, 100>>

\* startConversion has just been called with an empty page sequence.
StartedWithoutPages == lastEvent = "startConversion" /\ Len(pages) = 0

NotJsonTexts == {<<>>, TextNotJson, JsonTruncated}

WellFormedTexts == {JsonNoTables, JsonTableA, JsonTablesBA}

OtherShapeTexts == ExcelAnswers \ (NotJsonTexts \cup WellFormedTexts)

IsJsonText(res) == res \notin NotJsonTexts

\* The tables a well-formed payload lists, in its order; none for any other
\* text.
ListedTables(res) ==
  CASE res = JsonTableA -> <<TableA>>
    [] res = JsonTablesBA -> <<TableB, TableA>>
    [] OTHER -> <<>>

\* The number of tables listed by the pages before page k.
RECURSIVE ListedBefore(_, _)
ListedBefore(results, k) ==
  IF k = 1
  THEN 0
  ELSE ListedBefore(results, k - 1) + Len(ListedTables(results[k - 1]))

\* tables is the tables listed by the pages, page after page, each page's
\* tables in its order, and nothing else.
ListedInPageOrder(tables, results) ==
  /\ Len(tables) = ListedBefore(results, Len(results) + 1)
  /\ \A k \in 1..Len(results) :
       \A j \in 1..Len(ListedTables(results[k])) :
         tables[ListedBefore(results, k) + j] = ListedTables(results[k])[j]

ExcelRunsAssembled == {r \in RunIds : runs[r].resultSet /\ runs[r].target = "EXCEL"}

\* C6: a page result that is no JSON (the empty string too) contributes no
\* table and does not abort the run: the assembled tables are those of the
\* other pages alone, an error of the run is one the other pages cause in
\* generateExcel, and when the other pages are well-formed the run succeeds
\* with their tables, in page order.
C6_UnparseablePagesSkipped ==
  \A r \in ExcelRunsAssembled :
    LET results == runs[r].pageResults
        others == SelectSeq(results, IsJsonText)
    IN /\ conversionResult.tables = FlatMapTables(others)
       /\ runs[r].outcome = "error" => generateExcel(FlatMapTables(others), <<>>).threw
       /\ (\A k \in 1..Len(results) : results[k] \in NotJsonTexts \cup WellFormedTexts) =>
            /\ runs[r].outcome = "success"
            /\ ListedInPageOrder(conversionResult.tables, results)
            /\ saved.auto.kind = "xlsx"

\* A run over a page that is no JSON and a page with one table has succeeded
\* with that table.
C6_Witness ==
  \E r \in ExcelRunsAssembled :
    /\ runs[r].pageResults = <<TextNotJson, JsonTableA>>
    /\ runs[r].outcome = "success"
    /\ conversionResult.tables = <<TableA>>

\* C7: a page result that is JSON of another shape than {tables: Table[]}
\* (tables missing, null, a string, a number, an object, or an array whose
\* elements lack headers or rows) contributes no table and does not make the
\* run end in error: a run over such pages and well-formed ones assembles
\* the tables of the well-formed ones and does not fail.
C7_OtherShapesSkipped ==
  \A r \in ExcelRunsAssembled :
    (\A k \in 1..Len(runs[r].pageResults) :
       runs[r].pageResults[k] \in OtherShapeTexts \cup WellFormedTexts) =>
      /\ ListedInPageOrder(conversionResult.tables, runs[r].pageResults)
      /\ runs[r].outcome # "error"

\* C8: for well-formed page results the assembled tables are the per-page
\* lists one after the other in page order, each in the order returned, as
\* many as the lists hold together: nothing removed, nothing merged.
C8_TablesConcatenatedInPageOrder ==
  \A r \in ExcelRunsAssembled :
    (\A k \in 1..Len(runs[r].pageResults) : runs[r].pageResults[k] \in WellFormedTexts) =>
      ListedInPageOrder(conversionResult.tables, runs[r].pageResults)

\* Two pages, of two tables and of one, the last two tables equal.
C8_Witness ==
  \E r \in ExcelRunsAssembled :
    /\ runs[r].pageResults = <<JsonTablesBA, JsonTableA>>
    /\ conversionResult.tables = <<TableB, TableA, TableA>>

(***************************************************************************)
(* Properties of the document assembly.                                    *)
(***************************************************************************)
WordRunsAssembled == {r \in RunIds : runs[r].resultSet /\ runs[r].target = "WORD"}

\* Where page k starts in the concatenated markdown.
RECURSIVE PageStart(_, _)
PageStart(results, k) ==
  IF k = 1
  THEN 1
  ELSE PageStart(results, k - 1) + Len(results[k - 1]) + Len(PAGE_BREAK)

\* C9: the concatenated markdown of N >= 1 page results is the page results
\* in page order, the separator "\n\n--- PAGE BREAK ---\n\n" between each two
\* consecutive ones (N-1 times) and neither before the first nor after the
\* last; for N = 1 it is the page result.
C9_PagesJoinedBySeparator ==
  \A r \in WordRunsAssembled :
    LET results == runs[r].pageResults
        N == Len(results)
        md == conversionResult.markdown
    IN /\ N >= 1
       /\ conversionResult.hasMarkdown
       /\ Len(md) = PageStart(results, N) + Len(results[N]) - 1
       /\ \A k \in 1..N :
            SubSeq(md, PageStart(results, k), PageStart(results, k) + Len(results[k]) - 1)
              = results[k]
       /\ \A k \in 1..(N - 1) :
            SubSeq(md, PageStart(results, k) + Len(results[k]),
                   PageStart(results, k + 1) - 1) = PAGE_BREAK
       /\ N = 1 => md = results[1]

\* Two pages of text have been joined.
C9_Witness ==
  \E r \in WordRunsAssembled :
    /\ Len(runs[r].pageResults) = 2
    /\ runs[r].pageResults[1] # <<>>
    /\ runs[r].pageResults[2] # <<>>
    /\ conversionResult.markdown =
         runs[r].pageResults[1] \o PAGE_BREAK \o runs[r].pageResults[2]

\* A heading or bullet marker at the start of s.
StartsWithMarker(s) ==
  \/ StartsWith(s, <<"#", " ">>)
  \/ StartsWith(s, <<"#", "#", " ">>)
  \/ StartsWith(s, <<"#", "#", "#", " ">>)
  \/ StartsWith(s, <<"-", " ">>)
  \/ StartsWith(s, <<"*", " ">>)

\* The text of s after its first n characters.
After(s, n) == SubSeq(s, n + 1, Len(s))

\* What C10 says of one line and the block made of it.
ClassifiedByPrefix(line, block) ==
  /\ StartsWith(line, <<"#", " ">>) => block = Block("Heading", 1, After(line, 2))
  /\ StartsWith(line, <<"#", "#", " ">>) => block = Block("Heading", 2, After(line, 3))
  /\ StartsWith(line, <<"#", "#", "#", " ">>) =>
       block = Block("Heading", 3, After(line, 4))
  /\ StartsWith(line, <<"-", " ">>) \/ StartsWith(line, <<"*", " ">>) =>
       block = Block("Bullet", 0, After(line, 2))
  /\ (Len(line) > 0 /\ line[1] \in Whitespace /\ StartsWithMarker(TrimStart(line))) =>
       block = Block("Paragraph", 0, line)

\* C10: generateWord makes one block of every line, in line order, by the
\* prefix of the line at position 0 alone: "# ", "## ", "### " give a Heading
\* of level 1, 2, 3 and "- ", "* " a bullet item, each with the line less
\* that prefix; a line whose marker comes after whitespace gives a Paragraph
\* with the line as it is.
C10_LinesClassifiedByPrefix ==
  \A r \in WordRunsAssembled :
    LET lines == Split(conversionResult.markdown, "\n")
        children == runs[r].document.children
    IN /\ runs[r].document.kind = "docx"
       /\ Len(children) = Len(lines)
       /\ \A j \in 1..Len(lines) : ClassifiedByPrefix(lines[j], children[j])

\* A document with a heading from "# a" and a paragraph from " # a".
C10_Witness ==
  \E r \in WordRunsAssembled :
    LET children == runs[r].document.children
    IN /\ \E j \in 1..Len(children) : children[j] = Block("Heading", 1, <<"a">>)
       /\ \E j \in 1..Len(children) :
            children[j] = Block("Paragraph", 0, <<" ", "#", " ", "a">>)

\* A line with nothing but whitespace in it.
IsBlankLine(line) == Len(Trim(line)) = 0

\* The number of blank lines before the first line with content.
RECURSIVE LeadingBlankLines(_)
LeadingBlankLines(lines) ==
  IF Len(lines) = 0 \/ ~IsBlankLine(Head(lines))
  THEN 0
  ELSE 1 + LeadingBlankLines(Tail(lines))

\* C11: empty or whitespace-only lines before any block has been emitted
\* produce no block: the document has one block per line after them, and its
\* first block is the one made of the first line with content.
C11_LeadingBlankLinesDropped ==
  \A r \in WordRunsAssembled :
    LET lines == Split(conversionResult.markdown, "\n")
        lead == LeadingBlankLines(lines)
        children == runs[r].document.children
    IN lead < Len(lines) =>
         /\ Len(children) = Len(lines) - lead
         /\ children[1] = LineBlock(lines[lead + 1], <<>>)

\* C12: when the markdown is the empty string, the document is exactly one
\* Paragraph with the placeholder text, not an empty one.
C12_EmptyInputYieldsPlaceholder ==
  \A r \in WordRunsAssembled :
    conversionResult.markdown = <<>> =>
      runs[r].document.children = <<Block("Paragraph", 0, PlaceholderText)>>

\* The line of the separator: "--- PAGE BREAK ---".
SeparatorLine == SubSeq(PAGE_BREAK, 3, Len(PAGE_BREAK) - 2)

\* C13: for two or more page results, the concatenated markdown has one
\* separator line "--- PAGE BREAK ---" after each page but the last, and the
\* block of each is a Paragraph with that text; the page before it has given
\* at least one block, and the blocks right before and right after the
\* separator's are Blank.
C13_SeparatorLineIsParagraph ==
  \A r \in WordRunsAssembled :
    Len(runs[r].pageResults) >= 2 =>
      LET lines == Split(conversionResult.markdown, "\n")
          children == runs[r].document.children
          at == {j \in 1..Len(lines) : lines[j] = SeparatorLine}
      IN /\ Cardinality(at) = Len(runs[r].pageResults) - 1
         /\ Len(children) = Len(lines)
         /\ \A j \in at :
              /\ children[j] = Block("Paragraph", 0, SeparatorLine)
              /\ 1 < j
              /\ j < Len(children)
              /\ children[j - 1] = Blank
              /\ children[j + 1] = Blank

\* Two pages, the first one of a bullet item, around a separator.
C13_Witness ==
  \E r \in WordRunsAssembled :
    /\ runs[r].pageResults = << <<"-", " ", "a">>, <<"a">> >>
    /\ runs[r].document.children =
         <<Block("Bullet", 0, <<"a">>), Blank,
           Block("Paragraph", 0, SeparatorLine), Blank,
           Block("Paragraph", 0, <<"a">>)>>

(***************************************************************************)
(* Properties of the downloads.                                            *)
(***************************************************************************)
\* The file the emitter of target tgt writes for the page results of a run
\* on a file named fileName.
Emitted(tgt, pageResults, fileName) ==
  IF tgt = "EXCEL"
  THEN generateExcel(TablesOf(FinalData(tgt, pageResults)), CleanFileName(fileName)).artifact
  ELSE generateWord(MarkdownOf(FinalData(tgt, pageResults)), CleanFileName(fileName))

\* C14: Download Again changes no state of the application, and the file it
\* saves is the file the automatic download of the run saved: the tables or
\* blocks assembled from the page results of the successful run, for the
\* target and under the file name of that run.
C14_DownloadAgainRepeatsDownload ==
  /\ [](saved.manual # NoArtifact =>
          /\ saved.manual = saved.auto
          /\ \E r \in RunIds :
               /\ runs[r].outcome = "success"
               /\ saved.manual = Emitted(runs[r].target, runs[r].pageResults,
                                         runs[r].file.name))
  /\ [][lastEvent' = "handleManualDownload" =>
          UNCHANGED <<file, pages, status, target, conversionResult>>]_vars

\* Download Again has saved the workbook of a run on the image s.PNG.
C14_Witness ==
  /\ lastEvent = "handleManualDownload"
  /\ saved.manual.kind = "xlsx"
  /\ saved.manual.fileName = <<"s">> \o ExtXlsx
  /\ Len(saved.manual.sheets) >= 1

\* An element of tables that is a table: an object with headers and rows.
IsTable(t) == t.kind = "object" /\ t.hasHeaders /\ t.hasRows

\* C15: generateExcel given T >= 1 tables writes a workbook of exactly T
\* sheets, the k-th named "Table k" and holding the headers of the k-th table
\* and then its rows in order; given no table it succeeds too and writes one
\* sheet, "Info", with the single cell "No tables found by AI".
C15_OneSheetPerTable ==
  \A r \in ExcelRunsAssembled :
    LET tables == conversionResult.tables
        T == Len(tables)
        sheets == saved.auto.sheets
    IN (\A k \in 1..T : IsTable(tables[k])) =>
         /\ runs[r].outcome = "success"
         /\ saved.auto.kind = "xlsx"
         /\ T = 0 =>
              sheets = <<Sheet("Info", 0, <<Row(TRUE, <<"No tables found by AI">>)>>)>>
         /\ T >= 1 =>
              /\ Len(sheets) = T
              /\ \A k \in 1..T :
                   /\ sheets[k].label = "Table"
                   /\ sheets[k].n = k
                   /\ Len(sheets[k].data) = 1 + Len(tables[k].rows)
                   /\ sheets[k].data[1] = Row(TRUE, tables[k].headers)
                   /\ \A i \in 1..Len(tables[k].rows) :
                        sheets[k].data[1 + i] = Row(TRUE, tables[k].rows[i])

\* A workbook of three sheets, the first of a table without rows.
C15_Witness ==
  \E r \in ExcelRunsAssembled :
    /\ conversionResult.tables = <<TableB, TableA, TableA>>
    /\ Len(saved.auto.sheets) = 3
    /\ saved.auto.sheets[3] =
         Sheet("Table", 3, <<Row(TRUE, <<"a">>), Row(TRUE, <<"1">>)>>)

\* The position of the last "." of a name; 0 when it has none.
LastDot(name) ==
  IF Occurrences(name, <<".">>) = {}
  THEN 0
  ELSE CHOOSE i \in Occurrences(name, <<".">>) :
         \A j \in Occurrences(name, <<".">>) : j <= i

\* A file name less its extension: what comes before its last ".".
Stem(name) ==
  IF LastDot(name) = 0 THEN name ELSE SubSeq(name, 1, LastDot(name) - 1)

\* The files saved so far.
SavedFiles == {saved.auto, saved.manual} \ {NoArtifact}

\* C16: for every accepted source file, a PDF or a file whose type starts
\* with image/, the file saved is named by the name of the source file less
\* its extension, then ".xlsx" for a workbook and ".docx" for a document.
C16_OutputNameIsStemPlusExtension ==
  \A a \in SavedFiles :
    a.fileName = Stem(file.name) \o (IF a.kind = "xlsx" THEN ExtXlsx ELSE ExtDocx)

(***************************************************************************)
(* Properties of the run as a whole.                                       *)
(***************************************************************************)
\* The status a run ends with: complete at 100 without an error, for a run
\* that succeeded, or at 0 with a non-empty error message, for one that
\* failed.
TerminalStatus ==
  /\ ~status.isProcessing
  /\ \/ /\ status.progress = 100
        /\ status.error = Undef
        /\ \E r \in RunIds : runs[r].outcome = "success"
     \/ /\ status.progress = 0
        /\ Truthy(status.error)
        /\ \E r \in RunIds : runs[r].outcome = "error"

\* The calls of a run are for its pages in order, one call a page at most,
\* and none after a call that failed.
NoRetry(r) ==
  /\ Len(runs[r].calls) <= Len(runs[r].pages)
  /\ \A k \in 1..Len(runs[r].calls) :
       runs[r].calls[k].imageData = runs[r].pages[k].dataUrl
  /\ runs[r].failedCall > 0 =>
       /\ runs[r].phase = "done"
       /\ Len(runs[r].calls) = runs[r].failedCall

\* C17: with every inference call and the emitter eventually returning or
\* failing, a run that has started ends: status.isProcessing becomes false,
\* and the status it becomes false with is either progress 100 without an
\* error or a non-empty error message; no page is sent twice in a run.
C17_RunReachesTerminalStatus ==
  /\ status.isProcessing ~> ~status.isProcessing
  /\ [][status.isProcessing /\ ~status.isProcessing' => TerminalStatus']_vars
  /\ [](\A r \in RunIds : NoRetry(r))

\* A run has ended by the failure of Packer.toBlob, its error without a
\* message.
C17_Witness ==
  /\ lastEvent = "PackingFailed"
  /\ \E r \in RunIds : runs[r].phase = "done" /\ runs[r].thrown = ""
  /\ ~status.isProcessing

\* C18: a running conversion can be cancelled between page iterations: while
\* the call for page k is pending and a later page remains, the user has a
\* control that abandons the conversion (the only one the application has is
\* the remove-file button, reset), so that the call for page k+1 is not made.
C18_CancellationBetweenPages ==
  \A r \in RunIds :
    (runs[r].phase = "inference" /\ Len(runs[r].calls) < Len(runs[r].pages)) =>
      ResetShown

\* C19: the pages in state are pages of the selected file, and a conversion
\* sends pages of the file it names its output after.
C19_PagesBelongToFile ==
  /\ \A k \in 1..Len(pages) : pages[k].dataUrl.file = file.name
  /\ \A r \in RunIds :
       \A k \in 1..Len(runs[r].calls) :
         runs[r].calls[k].imageData.file = runs[r].file.name

\* The runs started since the last reset.
StartedRuns == {r \in RunIds : runs[r].phase # "idle"}

\* What C20 says of the emitters: while a run is under way or its result can
\* be downloaded, the target in state is the target the run was started with;
\* conversionResult is the variant of that target alone, with the data
\* assembled from the page results of the run; and a file saved is of the
\* kind of that target.
EmitterMatchesRun ==
  /\ \A r \in RunIds :
       (Active(r) \/ runs[r].outcome = "success") => target = runs[r].target
  /\ \A r \in RunIds :
       runs[r].resultSet =>
         /\ conversionResult = FinalData(runs[r].target, runs[r].pageResults)
         /\ conversionResult.hasTables <=> runs[r].target = "EXCEL"
         /\ conversionResult.hasMarkdown <=> runs[r].target = "WORD"
  /\ \A a \in SavedFiles :
       /\ \E r \in RunIds : runs[r].outcome = "success" /\ target = runs[r].target
       /\ a.kind = IF target = "EXCEL" THEN "xlsx" ELSE "docx"

\* C20 (as stated): from the start of a run until reset the target buttons
\* are not shown, so setTarget cannot be fired, and the emitters get the
\* target and the variant of the run.
C20_TargetFixedUntilReset ==
  /\ StartedRuns # {} => ~TargetShown
  /\ EmitterMatchesRun

\* C20 (amended): setTarget cannot be fired while a run is under way nor,
\* after a run that succeeded, until reset; after a run that failed the
\* target buttons are shown again, but no emitter can be invoked before
\* reset.  The emitters get the target and the variant of the run.
C20_TargetFixedWhileResultUsable ==
  /\ TargetShown =>
       /\ \A r \in RunIds : ~Active(r) /\ runs[r].outcome # "success"
       /\ ~DownloadAgainShown
       /\ ~ConvertShown \/ StartedRuns = {}
  /\ EmitterMatchesRun

\* After a run for Excel that failed in generateExcel, its result still in
\* state, the target has been set to Word.
C20_Witness ==
  /\ lastEvent = "setTarget"
  /\ target = "WORD"
  /\ \E r \in RunIds :
       /\ runs[r].outcome = "error"
       /\ runs[r].target = "EXCEL"
       /\ runs[r].resultSet
  /\ conversionResult.hasTables

(***************************************************************************)
(* Properties of the state while and after a run.                          *)
(***************************************************************************)
\* The steps of a run: the click that starts it and the continuations of
\* its awaited calls.
RunEvents ==
  {"startConversion", "InferenceReturned", "InferenceFailed", "Packed", "PackingFailed"}

\* No control of the user is on screen.
NoControlShown ==
  /\ ~FileInputShown
  /\ ~ResetShown
  /\ ~TargetShown
  /\ ~ConvertShown
  /\ ~DownloadAgainShown

\* C21: while status.isProcessing is true none of reset, file selection,
\* target selection, Convert and Download Again is enabled; no step changes
\* the selected file or the target, and only the steps of the run write
\* status and conversionResult.
C21_OnlyTheRunWritesWhileProcessing ==
  /\ [](status.isProcessing => NoControlShown)
  /\ [][status.isProcessing =>
          /\ file' = file
          /\ target' = target
          /\ (status' # status \/ conversionResult' # conversionResult) =>
               lastEvent' \in RunEvents]_vars

\* C22: status.progress is within 0..100 in every state; at progress 100 no
\* run is processing, a file is selected and conversionResult is not null,
\* so Download Again is on screen and has a result and a file name to emit;
\* and reset is the only step that leaves progress 100.
C22_CompleteStateIsStable ==
  /\ [](/\ status.progress \in 0..100
        /\ status.progress = 100 =>
             /\ ~status.isProcessing
             /\ file # NoFile
             /\ ~conversionResult.isNull
             /\ DownloadAgainShown
             /\ \E r \in RunIds : runs[r].outcome = "success")
  /\ [][(status.progress = 100 /\ status'.progress # 100) =>
          lastEvent' = "reset"]_vars

\* After a run has succeeded, a page extraction started before it fails:
\* the status carries an error at progress 100.
C22_Witness ==
  /\ status.progress = 100
  /\ status.error = "Failed to process file"
  /\ lastEvent = "PagesFailed"

\* The runs that ended in the catch block of startConversion.
FailedRuns == {r \in RunIds : runs[r].outcome = "error"}

\* C23 (as stated): a run that ends in error, by an inference failure or by
\* a failure inside the emitter, leaves conversionResult null.
C23_FailedRunLeavesNoResult ==
  \A r \in FailedRuns : conversionResult.isNull

\* C23 (amended): a run that ends in error has saved no file, and until
\* reset neither Download Again nor Convert is on screen; conversionResult
\* is null when an inference call failed, and is the result the run
\* assembled, kept in state, when the emitter failed.
C23_FailedRunEmitsNothing ==
  \A r \in FailedRuns :
    /\ saved = NothingSaved
    /\ ~DownloadAgainShown
    /\ ~ConvertShown
    /\ Truthy(status.error)
    /\ runs[r].failedCall > 0 => conversionResult.isNull
    /\ runs[r].failedCall = 0 =>
         /\ runs[r].resultSet
         /\ conversionResult = FinalData(runs[r].target, runs[r].pageResults)

\* A run for Word over two pages has failed in Packer.toBlob, its markdown
\* kept in conversionResult.
C23_Witness ==
  \E r \in FailedRuns :
    /\ runs[r].target = "WORD"
    /\ Len(runs[r].pageResults) = 2
    /\ runs[r].thrown = "Failed to fetch"
    /\ conversionResult.hasMarkdown
    /\ conversionResult.markdown = FullMarkdown(runs[r].pageResults)

====
